---- MODULE Spec2Model ----
(***************************************************************************)
(* Model of the transcription request client of SDTranscription            *)
(* (src/utils/openai.ts): checkApiHealth, transcribeAudioRemote and        *)
(* transcribeAudio.  One call is in progress at a time; every await of the *)
(* code on a network answer or on a timer is one step of the model.        *)
(* Spec is the client; HeuristicSpec applies the speaker heuristic of      *)
(* transcribeAudio to word lists; ScreenSpec is the transcribe control of  *)
(* the transcripts screen; StoreSpec is the recordings store               *)
(* (src/stores/recordingsStore.ts); RecordSpec is the record screen.       *)
(*                                                                         *)
(* Error messages are sequences of tokens: String.includes(s) is           *)
(* membership of the token s, === is equality of the whole sequence.       *)
(* Accents of the French messages are dropped.                             *)
(***************************************************************************)
EXTENDS Integers, Sequences, FiniteSets, TLC

VARIABLES
    pc,          \* where the call is: idle, health, post, body, sleep, cleanup, summary, done
    fn,          \* "transcribeAudioRemote" | "transcribeAudio" | "generateSummary" | "none"
    platformOS,  \* Platform.OS: "web" | "native"
    abortStyle,  \* what an aborted fetch rejects with on this runtime
    audioData,   \* the audio handle passed to the call
    apiKey,      \* the API key passed to the call ("" when missing)
    attempt,     \* loop variable of the retry loop
    lastError,   \* lastError of the retry loop
    gets,        \* health-probe GETs issued by the call
    posts,       \* transcription POSTs issued by the call
    chats,       \* chat-completion requests issued by the call
    delays,      \* the backoff delays slept so far, in order
    health,      \* the outcome of the health probe
    outcomes,    \* the outcomes of the transcription POSTs so far, in order
    cleanups,    \* the outcomes of the chat-completion calls so far, in order
    result,      \* what the call returned or threw
    speakers,    \* the speakers passed to transcribeAudio (their ids)
    processedWords, \* processedWords of transcribeAudio, returned as words
    timers,      \* the armed timeout timers: 0 the health probe's, n attempt n's
    hWords,      \* HeuristicSpec: the words of the Whisper response
    hSpeakers,   \* HeuristicSpec: the speakers (their ids)
    hProcessed,  \* HeuristicSpec: the processedWords produced
    processingId, \* ScreenSpec: processingId of the transcripts screen
    inFlight,    \* ScreenSpec: per recording, the handleTranscribe calls awaiting the client
    serviceStatus, \* ScreenSpec: serviceStatus of the transcripts screen
    settingsMode, \* ScreenSpec: transcriptionSettings.mode
    keysSet,     \* ScreenSpec: the modes whose API key is configured
    recordings,  \* the recordings of the store, newest first
    storeOps,    \* StoreSpec: the store operations applied so far
    recPlatform, \* RecordSpec: Platform.OS of the mounted record screen, "none" before
    isRecording, \* RecordSpec: isRecording of the record screen
    isProcessing, \* RecordSpec: isProcessing of the record screen
    isUnloading, \* RecordSpec: isUnloading.current
    currentRecordingId, \* RecordSpec: currentRecordingId ("null" for null)
    nativeRecording, \* RecordSpec: whether the state `recording` holds an Audio.Recording
    mediaRecorder, \* RecordSpec: mediaRecorderRef.current, with the id its onstop captured
    pendingOnstop, \* RecordSpec: the captured ids of the onstop events not yet delivered
    resetTimers, \* RecordSpec: the 100 ms reset timers not yet fired
    startAwait,  \* RecordSpec: the startRecording call awaiting its recorder
    stopAwait,   \* RecordSpec: the native stopRecording call awaiting stopAndUnloadAsync
    clock        \* RecordSpec: the readings of Date.now() so far

clientVars == <<pc, fn, platformOS, abortStyle, audioData, apiKey, attempt, lastError,
                gets, posts, chats, delays, health, outcomes, cleanups, result,
                speakers, processedWords, timers>>

heuristicVars == <<hWords, hSpeakers, hProcessed>>

screenVars == <<processingId, inFlight, serviceStatus, settingsMode, keysSet>>

storeVars == <<recordings, storeOps>>

recordVars == <<recPlatform, isRecording, isProcessing, isUnloading, currentRecordingId,
                nativeRecording, mediaRecorder, pendingOnstop, resetTimers,
                startAwait, stopAwait, clock>>

vars == <<clientVars, heuristicVars, screenVars, storeVars, recordVars>>

----------------------------------------------------------------------------
(* Constants of the program *)

MAX_FILE_SIZE == 25 * 1024 * 1024

RemoteMaxRetries == 2

VendorMaxRetries == 3

(* Bound of the model: payload sizes up to MAX_FILE_SIZE + ExtraBytes *)
ExtraBytes == 1

(* Bound of StoreSpec: store operations applied in a run *)
MaxStoreOps == 3

(* Bounds of HeuristicSpec: word lists of at most MaxWords words, with start *)
(* and end times of 0 .. MaxTime seconds                                     *)
MaxWords == 2

MaxTime == 3

----------------------------------------------------------------------------
(* Messages *)

MsgRemoteKeyMissing == <<"Cle API manquante pour la transcription distante.">>
MsgVendorKeyMissing == <<"Cle API OpenAI invalide ou manquante. Veuillez verifier votre configuration.">>
MsgHealthUnavailable == <<"Le service de transcription est temporairement indisponible. Veuillez reessayer plus tard ou utiliser le mode local.">>
MsgTooLarge == <<"Le fichier audio est trop volumineux. La taille maximale est de 25 Mo.">>
MsgEmptyWeb == <<"Le fichier audio est vide. Veuillez reenregistrer votre audio.">>
MsgFetchAudioFailed == <<"Failed to fetch audio file: ">>
MsgMissingNative == <<"Le fichier audio est introuvable">>
MsgEmptyNative == <<"Le fichier audio est vide">>
MsgProcessingWeb == <<"Erreur lors du traitement du fichier audio. Veuillez reenregistrer votre audio.">>
MsgProcessingNative == <<"Erreur lors du traitement du fichier audio sur mobile.">>
MsgRemoteAttemptTimeout == <<"Delai d'attente depasse - Le service de transcription met trop de temps a repondre">>
MsgVendorAttemptTimeout == <<"Delai d'attente depasse - L'API OpenAI met trop de temps a repondre">>
(* variant of MsgNoTranscription worded as a network failure *)
MsgNoTranscription_Network == <<"Network", " error: aucune transcription recue">>

MsgNoTranscription == <<"Aucune transcription recue de l'API.">>
MsgNoText == <<"Aucun texte recu de l'API Whisper.">>
MsgRemoteAuth == <<"Erreur d'authentification API. Veuillez verifier votre cle API dans les parametres.">>
MsgRemoteNotFound == <<"Service de transcription introuvable. Veuillez contacter le support.">>
MsgRemoteMethod == <<"Configuration du service incorrecte. Veuillez contacter le support technique.">>
MsgRemoteUnavailable == <<"Le service de transcription est temporairement indisponible. Veuillez reessayer plus tard.">>
MsgRemoteTimeout == <<"Delai d'attente depasse. Le service met trop de temps a repondre. Veuillez reessayer.">>
MsgRemoteConnect == <<"Impossible de se connecter au service de transcription. Verifiez votre connexion internet ou essayez le mode local.">>
MsgRateLimited == <<"Limite de requetes API atteinte. Veuillez reessayer plus tard.">>
MsgUploadTooLarge == <<"Le fichier audio est trop volumineux. Veuillez reduire sa taille.">>
MsgRemotePrefix == <<"Erreur lors de la transcription: ">>
MsgVendorAuth == <<"Erreur d'authentification API. Veuillez verifier votre cle API.">>
MsgVendorQuota == <<"Quota API insuffisant. Veuillez verifier votre abonnement OpenAI.">>
MsgVendorNetwork == <<"Erreur de connexion reseau. Veuillez verifier votre connexion internet et reessayer.">>
MsgVendorTimeout == <<"Timeout - OpenAI API met trop de temps a repondre. Veuillez reessayer.">>
MsgSummaryKeyMissing == <<"Cle API OpenAI invalide ou manquante.">>
MsgNoSummary == <<"Aucun resume genere.">>
MsgSummaryAuth == <<"Erreur d'authentification API.">>
MsgSummaryRateLimited == <<"Limite de requetes API atteinte.">>
MsgSummaryQuota == <<"Quota API insuffisant.">>
MsgSummaryFailed == <<"Erreur lors de la generation du resume.">>

(* String.prototype.includes on a message *)
Includes(msg, s) == \E i \in DOMAIN msg : msg[i] = s

Min(a, b) == IF a <= b THEN a ELSE b

----------------------------------------------------------------------------
(* Values *)

(* a thrown value: an Error (name, message) or the abort reason object *)
Err(name, reason, message) == [name |-> name, reason |-> reason, message |-> message]

NoError == Err("null", "", <<>>)

NoResult == [status |-> "pending", value |-> <<>>]

Returned(text) == [status |-> "returned", value |-> <<text>>]

Thrown(message) == [status |-> "thrown", value |-> message]

NoAudio == [kind |-> "none", exists |-> FALSE, size |-> 0]

NoOutcome == [type |-> "none", status |-> 0, body |-> <<>>,
              json |-> [transcription |-> "", text |-> ""]]

----------------------------------------------------------------------------
(* Inputs of a call and answers of the environment *)

Platforms == {"web", "native"}

(* An aborted fetch rejects with a DOMException named AbortError (the React    *)
(* Native fetch, older browsers) or with the reason handed to abort(), here    *)
(* the plain object {reason: 'timeout'} (current browsers).                    *)
AbortStyles(os) == IF os = "web" THEN {"AbortError", "reason"} ELSE {"AbortError"}

Sizes == {0, 2 * 1024 * 1024, MAX_FILE_SIZE}
             \cup ((MAX_FILE_SIZE + 1) .. (MAX_FILE_SIZE + ExtraBytes))

AudioInputs(os) ==
    IF os = "web"
    THEN [kind : {"blob", "datauri", "url"}, exists : {TRUE}, size : Sizes]
             \cup {[kind |-> "url", exists |-> FALSE, size |-> 0]}
    ELSE [kind : {"path"}, exists : {TRUE}, size : Sizes]
             \cup {[kind |-> "path", exists |-> FALSE, size |-> 0]}

ApiKeys == {"", "sk-key"}

EmptyJson == [transcription |-> "", text |-> ""]

Response(status, body, json) ==
    [type |-> "response", status |-> status, body |-> body, json |-> json]

NetworkFailure(message) ==
    [type |-> "networkError", status |-> 0, body |-> message, json |-> EmptyJson]

TimerAbort == [type |-> "abort", status |-> 0, body |-> <<>>, json |-> EmptyJson]

(* TypeError messages of a failed fetch: Chrome, React Native, Safari *)
FetchFailureMessages == {<<"Failed to fetch">>, <<"Network", " request failed">>, <<"Load failed">>}

HealthStatuses == {200, 404, 405, 500}

HealthOutcomes ==
    {Response(s, <<>>, EmptyJson) : s \in HealthStatuses}
        \cup {NetworkFailure(<<"Failed to fetch">>), TimerAbort}

PostStatuses == {0, 401, 403, 404, 405, 413, 429, 500}

(* the text of an error body, as it ends up in the error message *)
ErrorBodies == {<<>>, <<"timeout">>, <<"insufficient_quota">>, <<"Too Many Requests">>}

SuccessJsons ==
    {[transcription |-> "bonjour le monde", text |-> ""],
     [transcription |-> "", text |-> "bonjour le monde"],
     EmptyJson}

(* a word of the verbose_json answer of Whisper *)
Word(text, start, end) == [text |-> text, start |-> start, end |-> end]

(* the verbose_json answer of Whisper: text and words *)
WhisperResponse(text, words) ==
    [type |-> "response", status |-> 200, body |-> <<>>,
     json |-> [transcription |-> "", text |-> text], words |-> words]

(* word lists answered to a call: two words with a long pause between them *)
WhisperWordLists ==
    {<<Word("bonjour", 0, 1), Word("monde", 4, 5)>>}

(* the speakers argument of transcribeAudio: the ids of two speakers *)
SpeakerSets == {<<"1", "2">>}

PostOutcomes ==
    {Response(s, b, EmptyJson) : s \in PostStatuses, b \in ErrorBodies}
        \cup {Response(200, <<>>, j) : j \in SuccessJsons}
        \cup {WhisperResponse("bonjour monde", w) : w \in WhisperWordLists}
        \cup {NetworkFailure(m) : m \in FetchFailureMessages}
        \cup {TimerAbort}

Completion(content) ==
    [type |-> "completion", status |-> 200, body |-> <<>>,
     json |-> [transcription |-> "", text |-> content]]

ChatFailure(message) ==
    [type |-> "chatError", status |-> 0, body |-> message, json |-> EmptyJson]

ChatOutcomes ==
    {Completion("Bonjour le monde."), Completion("")}
        \cup {ChatFailure(m) : m \in {<<"Connection error.">>,
                                      <<"401", " Incorrect API key provided">>,
                                      <<"503", " upstream ", "timeout">>}}

(* a rejection of the chat completion of generateSummary: error.status (0 when *)
(* the error has none) and error.message                                       *)
SummaryFailure(status, message) ==
    [type |-> "chatError", status |-> status, body |-> message, json |-> EmptyJson]

SummaryOutcomes ==
    {Completion("Resume."), Completion("")}
        \cup {SummaryFailure(st, m) : st \in {0, 401, 429, 500},
                                      m \in {<<"Connection error.">>, <<"insufficient_quota">>}}

ResponseOk(o) == o.type = "response" /\ o.status >= 200 /\ o.status <= 299

----------------------------------------------------------------------------
(* checkApiHealth *)

CheckApiHealth(o) ==
    IF o.type = "response" THEN o.status # 405 ELSE FALSE

----------------------------------------------------------------------------
(* The payload checks of both functions *)

(* the error thrown inside the inner try, <<>> when the payload passes *)
PayloadError(os, audio) ==
    IF os = "web"
    THEN IF audio.kind = "url" /\ ~audio.exists THEN MsgFetchAudioFailed
         ELSE IF audio.size > MAX_FILE_SIZE THEN MsgTooLarge
         ELSE IF audio.size = 0 THEN MsgEmptyWeb
         ELSE <<>>
    ELSE IF ~audio.exists THEN MsgMissingNative
         ELSE IF audio.size = 0 THEN MsgEmptyNative
         ELSE IF audio.size > MAX_FILE_SIZE THEN MsgTooLarge
         ELSE <<>>

(* the inner catch replaces whatever was thrown *)
ProcessAudio(os, audio) ==
    IF PayloadError(os, audio) = <<>> THEN <<>>
    ELSE IF os = "web" THEN MsgProcessingWeb
    ELSE MsgProcessingNative

----------------------------------------------------------------------------
(* The retry loops *)

AbortedFetch(style) ==
    IF style = "AbortError"
    THEN Err("AbortError", "", <<"Aborted">>)
    ELSE Err("", "timeout", <<>>)

(* what the try block of transcribeAudioRemote throws on a POST outcome,  *)
(* NoError when it returns                                                 *)
RemoteThrown(o, style) ==
    IF o.type = "abort" THEN AbortedFetch(style)
    ELSE IF o.type = "networkError" THEN Err("TypeError", "", o.body)
    ELSE IF ~ResponseOk(o)
    THEN IF o.status = 0 \/ o.status >= 500 THEN Err("Error", "", <<"SERVICE_UNAVAILABLE">>)
         ELSE IF o.status = 404 THEN Err("Error", "", <<"SERVICE_NOT_FOUND">>)
         ELSE IF o.status = 401 \/ o.status = 403 THEN Err("Error", "", <<"AUTHENTICATION_ERROR">>)
         ELSE IF o.status = 405 THEN Err("Error", "", <<"METHOD_NOT_ALLOWED">>)
         ELSE Err("Error", "",
                  <<"API request failed with status ", ToString(o.status), ": ">> \o o.body)
    ELSE IF o.json.transcription = "" THEN Err("Error", "", MsgNoTranscription)
    ELSE NoError

(* variant of RemoteTranscription reading the vendor's field of the JSON *)
RemoteTranscription_TextField(o) == o.json.text

RemoteTranscription(o) == o.json.transcription

(* lastError as the catch block sets it *)
LastErrorOf(error, timeoutMessage) ==
    IF error.name = "AbortError" \/ error.reason = "timeout"
    THEN Err("Error", "", timeoutMessage)
    ELSE error

RemoteNoRetry(message) ==
    \/ message = <<"AUTHENTICATION_ERROR">>
    \/ message = <<"SERVICE_NOT_FOUND">>
    \/ message = <<"METHOD_NOT_ALLOWED">>
    \/ Includes(message, "413")
    \/ Includes(message, "Payload Too Large")

RemoteIsNetworkError(error, message) ==
    \/ error.name = "AbortError"
    \/ error.name = "TypeError"
    \/ message = <<"SERVICE_UNAVAILABLE">>
    \/ Includes(message, "Failed to fetch")
    \/ Includes(message, "Network")
    \/ Includes(message, "ECONNREFUSED")
    \/ Includes(message, "timeout")

(* variant of RemoteBreaks with the attempt cap off by one *)
RemoteBreaks_CapPlusOne(error, n) ==
    LET message == LastErrorOf(error, MsgRemoteAttemptTimeout).message
    IN  \/ RemoteNoRetry(message)
        \/ ~RemoteIsNetworkError(error, message)
        \/ n = RemoteMaxRetries + 1

(* TRUE when the catch block leaves the loop *)
RemoteBreaks(error, n) ==
    LET message == LastErrorOf(error, MsgRemoteAttemptTimeout).message
    IN  \/ RemoteNoRetry(message)
        \/ ~RemoteIsNetworkError(error, message)
        \/ n = RemoteMaxRetries

RemoteDelay(n) == Min(1000 * n, 3000)

(* the message thrown after the loop *)
RemoteSurface(last) ==
    LET message == last.message
    IN  IF message = <<"AUTHENTICATION_ERROR">> THEN MsgRemoteAuth
        ELSE IF message = <<"SERVICE_NOT_FOUND">> THEN MsgRemoteNotFound
        ELSE IF message = <<"METHOD_NOT_ALLOWED">> THEN MsgRemoteMethod
        ELSE IF message = <<"SERVICE_UNAVAILABLE">> THEN MsgRemoteUnavailable
        ELSE IF last.name = "AbortError" \/ Includes(message, "timeout") THEN MsgRemoteTimeout
        ELSE IF last.name = "TypeError" \/ Includes(message, "Failed to fetch") THEN MsgRemoteConnect
        ELSE IF Includes(message, "429") \/ Includes(message, "Too Many Requests") THEN MsgRateLimited
        ELSE IF Includes(message, "413") \/ Includes(message, "Payload Too Large") THEN MsgUploadTooLarge
        ELSE MsgRemotePrefix \o message

(* what the try block of transcribeAudio throws on a POST outcome *)
VendorThrown(o, style) ==
    IF o.type = "abort" THEN AbortedFetch(style)
    ELSE IF o.type = "networkError" THEN Err("TypeError", "", o.body)
    ELSE IF ~ResponseOk(o)
    THEN Err("Error", "",
             <<"API request failed with status ", ToString(o.status), ": ">> \o o.body)
    ELSE IF o.json.text = "" THEN Err("Error", "", MsgNoText)
    ELSE NoError

VendorIsRetryable(error, message) ==
    \/ Includes(message, "Network")
    \/ Includes(message, "ECONNREFUSED")
    \/ Includes(message, "timeout")
    \/ Includes(message, "Failed to fetch")
    \/ error.name = "AbortError"

VendorBreaks(error, n) ==
    LET message == LastErrorOf(error, MsgVendorAttemptTimeout).message
    IN  \/ ~VendorIsRetryable(error, message)
        \/ n = VendorMaxRetries

(* Math.pow(2, attempt) *)
Pow2(n) == IF n = 1 THEN 2 ELSE IF n = 2 THEN 4 ELSE IF n = 3 THEN 8 ELSE 16

VendorDelay(n) == Min(Pow2(n) * 1000, 10000)

VendorSurface(last) ==
    LET message == last.message
    IN  IF Includes(message, "401") \/ Includes(message, "Unauthorized") THEN MsgVendorAuth
        ELSE IF Includes(message, "429") \/ Includes(message, "Too Many Requests") THEN MsgRateLimited
        ELSE IF Includes(message, "insufficient_quota") THEN MsgVendorQuota
        ELSE IF Includes(message, "Network") \/ Includes(message, "Failed to fetch") THEN MsgVendorNetwork
        ELSE IF Includes(message, "413") \/ Includes(message, "Payload Too Large") THEN MsgUploadTooLarge
        ELSE IF Includes(message, "timeout") THEN MsgVendorTimeout
        ELSE message

(* transcript: formattedText || transcriptionResponse.text *)
VendorTranscript(content, rawText) == IF content # "" THEN content ELSE rawText

----------------------------------------------------------------------------
(* generateSummary *)

(* an error caught by generateSummary: error.status (0 when it has none) and *)
(* error.message                                                             *)
SummaryError(status, message) == [status |-> status, message |-> message]

NoSummaryError == SummaryError(0, <<>>)

(* what the try block of generateSummary throws on outcome o of the chat *)
(* completion, NoSummaryError when it returns                            *)
SummaryThrown(o) ==
    IF o.type = "chatError" THEN SummaryError(o.status, o.body)
    ELSE IF o.json.text = "" THEN SummaryError(0, MsgNoSummary)
    ELSE NoSummaryError

(* the message thrown by the catch block *)
SummarySurface(error) ==
    IF error.status = 401 THEN MsgSummaryAuth
    ELSE IF error.status = 429 THEN MsgSummaryRateLimited
    ELSE IF Includes(error.message, "insufficient_quota") THEN MsgSummaryQuota
    ELSE MsgSummaryFailed

----------------------------------------------------------------------------
(* The speaker heuristic of transcribeAudio *)

(* the id read off a missing speaker: speakers[i]?.id *)
Undefined == "undefined"

(* transcriptionResponse.words || [] *)
WordsOf(o) == IF "words" \in DOMAIN o THEN o.words ELSE <<>>

(* speakers[0]?.id *)
InitialSpeakerId(sp) == IF sp = <<>> THEN Undefined ELSE sp[1]

(* speakers[Math.floor(Math.random() * speakers.length)]?.id: any of them *)
RandomSpeakerIds(sp) == IF sp = <<>> THEN {Undefined} ELSE {sp[i] : i \in DOMAIN sp}

(* variant of SpeakerChange that forgets to subtract currentTime *)
SpeakerChange_NoSubtraction(word, currentTime) == word.start > 2

(* a pause of more than 2 seconds before the word *)
SpeakerChange(word, currentTime) == word.start - currentTime > 2

(* variant of ProcessedWord that takes the start time from the word's end *)
ProcessedWord_EndAsStart(word, id) ==
    [text |-> word.text, startTime |-> word.end, endTime |-> word.end, speakerId |-> id]

ProcessedWord(word, id) ==
    [text |-> word.text, startTime |-> word.start, endTime |-> word.end, speakerId |-> id]

(* the for loop over words: every processedWords it can produce *)
RECURSIVE TagWords(_, _, _, _)
TagWords(words, sp, currentSpeakerId, currentTime) ==
    IF words = <<>> THEN {<<>>}
    ELSE LET word == Head(words)
             ids == IF SpeakerChange(word, currentTime)
                    THEN RandomSpeakerIds(sp)
                    ELSE {currentSpeakerId}
         IN  UNION {{<<ProcessedWord(word, id)>> \o rest :
                        rest \in TagWords(Tail(words), sp, id, word.end)} : id \in ids}

ProcessWords(words, sp) == TagWords(words, sp, InitialSpeakerId(sp), 0)

(* Inputs of HeuristicSpec *)
WordTexts == {"bonjour", "monde"}

Words == {Word(t, a, b) : t \in WordTexts, a \in 0 .. MaxTime, b \in 0 .. MaxTime}

TimedWords == {w \in Words : w.start <= w.end}

WordLists == UNION {[1 .. n -> TimedWords] : n \in 0 .. MaxWords}

HeuristicSpeakerSets == {<<>>, <<"1">>, <<"1", "2">>}

----------------------------------------------------------------------------
(* The state machine *)

ClientInit ==
    /\ pc = "idle"
    /\ fn = "none"
    /\ platformOS = "web"
    /\ abortStyle = "AbortError"
    /\ audioData = NoAudio
    /\ apiKey = ""
    /\ attempt = 0
    /\ lastError = NoError
    /\ gets = 0
    /\ posts = 0
    /\ chats = 0
    /\ delays = <<>>
    /\ health = NoOutcome
    /\ outcomes = <<>>
    /\ cleanups = <<>>
    /\ result = NoResult
    /\ speakers = <<>>
    /\ processedWords = <<>>
    /\ timers = {}

HeuristicInit ==
    /\ hWords = <<>>
    /\ hSpeakers = <<>>
    /\ hProcessed = <<>>

(* the call ends by throwing message *)
Throw(message) ==
    /\ pc' = "done"
    /\ result' = Thrown(message)

(* the payload checks, then the first iteration of the loop up to its fetch; *)
(* pending are the timers armed so far                                       *)
PrepareAndPost(os, audio, pending) ==
    IF ProcessAudio(os, audio) # <<>>
    THEN /\ Throw(ProcessAudio(os, audio))
         /\ timers' = pending
         /\ UNCHANGED <<attempt, posts>>
    ELSE /\ pc' = "post"
         /\ attempt' = 1
         /\ posts' = posts + 1
         /\ timers' = pending \cup {1}
         /\ UNCHANGED result

(* transcribeAudioRemote is called, up to the await of the health probe *)
CallRemote(os, style, audio, key) ==
    /\ pc = "idle"
    /\ fn' = "transcribeAudioRemote"
    /\ platformOS' = os
    /\ abortStyle' = style
    /\ audioData' = audio
    /\ apiKey' = key
    /\ IF key = ""
       THEN /\ Throw(MsgRemoteKeyMissing)
            /\ UNCHANGED <<gets, timers>>
       ELSE /\ pc' = "health"
            /\ gets' = gets + 1
            /\ timers' = {0}
            /\ UNCHANGED result
    /\ UNCHANGED <<attempt, lastError, posts, chats, delays, health, outcomes, cleanups,
                   speakers, processedWords>>
    /\ UNCHANGED <<heuristicVars, screenVars, storeVars, recordVars>>

(* the health probe settles: checkApiHealth returns, the call goes on; *)
(* its timer is cleared after the fetch, not in the catch               *)
HealthResponse(o) ==
    /\ pc = "health"
    /\ health' = o
    /\ LET pending == IF o.type = "networkError" THEN timers ELSE timers \ {0}
       IN  IF ~CheckApiHealth(o)
           THEN /\ Throw(MsgHealthUnavailable)
                /\ timers' = pending
                /\ UNCHANGED <<attempt, posts>>
           ELSE PrepareAndPost(platformOS, audioData, pending)
    /\ UNCHANGED <<fn, platformOS, abortStyle, audioData, apiKey, lastError, gets,
                   chats, delays, outcomes, cleanups, speakers, processedWords>>
    /\ UNCHANGED <<heuristicVars, screenVars, storeVars, recordVars>>

(* variant of CallVendor that prepares and posts the audio before it looks at the key *)
CallVendor_PayloadFirst(os, style, audio, sp, key) ==
    /\ pc = "idle"
    /\ fn' = "transcribeAudio"
    /\ platformOS' = os
    /\ abortStyle' = style
    /\ audioData' = audio
    /\ speakers' = sp
    /\ apiKey' = key
    /\ PrepareAndPost(os, audio, timers)
    /\ UNCHANGED <<lastError, gets, chats, delays, health, outcomes, cleanups,
                   processedWords>>
    /\ UNCHANGED <<heuristicVars, screenVars, storeVars, recordVars>>

(* transcribeAudio is called, up to the await of the first POST *)
CallVendor(os, style, audio, sp, key) ==
    /\ pc = "idle"
    /\ fn' = "transcribeAudio"
    /\ platformOS' = os
    /\ abortStyle' = style
    /\ audioData' = audio
    /\ speakers' = sp
    /\ apiKey' = key
    /\ IF key = ""
       THEN /\ Throw(MsgVendorKeyMissing)
            /\ UNCHANGED <<attempt, posts, timers>>
       ELSE PrepareAndPost(os, audio, timers)
    /\ UNCHANGED <<lastError, gets, chats, delays, health, outcomes, cleanups,
                   processedWords>>
    /\ UNCHANGED <<heuristicVars, screenVars, storeVars, recordVars>>

(* the response headers of the POST arrive: clearTimeout, then the body is awaited *)
HeadersArrive ==
    /\ pc = "post"
    /\ pc' = "body"
    /\ timers' = timers \ {attempt}
    /\ UNCHANGED <<fn, platformOS, abortStyle, audioData, apiKey, attempt, lastError,
                   gets, posts, chats, delays, health, outcomes, cleanups, result,
                   speakers, processedWords>>
    /\ UNCHANGED <<heuristicVars, screenVars, storeVars, recordVars>>

(* outcome o can end the await the call is at: before the headers the timer *)
(* aborts the fetch or the connection fails, after them the body is read     *)
Settles(o) ==
    \/ o.type \in {"abort", "networkError"} /\ pc = "post"
    \/ o.type = "response" /\ pc = "body"

(* a timer that fired is no longer armed; nothing else clears one here *)
TimersAfter(o) == IF o.type = "abort" THEN timers \ {attempt} ELSE timers

(* the catch block of transcribeAudioRemote and what follows the loop *)
RemoteCatch(error) ==
    LET last == LastErrorOf(error, MsgRemoteAttemptTimeout)
    IN  /\ lastError' = last
        /\ IF RemoteBreaks(error, attempt)
           THEN /\ Throw(RemoteSurface(last))
                /\ UNCHANGED delays
           ELSE /\ pc' = "sleep"
                /\ delays' = Append(delays, RemoteDelay(attempt))
                /\ UNCHANGED result

(* variant of VendorCatch that keeps the error of the first failed attempt *)
VendorCatch_KeepsFirstError(error) ==
    LET last == IF lastError # NoError THEN lastError
                ELSE LastErrorOf(error, MsgVendorAttemptTimeout)
    IN  /\ lastError' = last
        /\ IF VendorBreaks(error, attempt)
           THEN /\ Throw(VendorSurface(last))
                /\ UNCHANGED delays
           ELSE /\ pc' = "sleep"
                /\ delays' = Append(delays, VendorDelay(attempt))
                /\ UNCHANGED result

(* the catch block of transcribeAudio and what follows the loop *)
VendorCatch(error) ==
    LET last == LastErrorOf(error, MsgVendorAttemptTimeout)
    IN  /\ lastError' = last
        /\ IF VendorBreaks(error, attempt)
           THEN /\ Throw(VendorSurface(last))
                /\ UNCHANGED delays
           ELSE /\ pc' = "sleep"
                /\ delays' = Append(delays, VendorDelay(attempt))
                /\ UNCHANGED result

(* the POST of transcribeAudioRemote settles *)
RemotePostResponse(o) ==
    /\ Settles(o)
    /\ fn = "transcribeAudioRemote"
    /\ outcomes' = Append(outcomes, o)
    /\ timers' = TimersAfter(o)
    /\ IF RemoteThrown(o, abortStyle) = NoError
       THEN /\ pc' = "done"
            /\ result' = Returned(RemoteTranscription(o))
            /\ UNCHANGED <<lastError, delays>>
       ELSE RemoteCatch(RemoteThrown(o, abortStyle))
    /\ UNCHANGED <<fn, platformOS, abortStyle, audioData, apiKey, attempt, gets,
                   posts, chats, health, cleanups, speakers, processedWords>>
    /\ UNCHANGED <<heuristicVars, screenVars, storeVars, recordVars>>

(* the POST of transcribeAudio settles; on success the words are tagged and *)
(* the cleanup call is sent                                                 *)
VendorPostResponse(o) ==
    /\ Settles(o)
    /\ fn = "transcribeAudio"
    /\ outcomes' = Append(outcomes, o)
    /\ timers' = TimersAfter(o)
    /\ IF VendorThrown(o, abortStyle) = NoError
       THEN /\ pc' = "cleanup"
            /\ chats' = chats + 1
            /\ processedWords' \in ProcessWords(WordsOf(o), speakers)
            /\ UNCHANGED <<lastError, delays, result>>
       ELSE /\ VendorCatch(VendorThrown(o, abortStyle))
            /\ UNCHANGED <<chats, processedWords>>
    /\ UNCHANGED <<fn, platformOS, abortStyle, audioData, apiKey, attempt, gets,
                   posts, health, cleanups, speakers>>
    /\ UNCHANGED <<heuristicVars, screenVars, storeVars, recordVars>>

(* the chat completion of transcribeAudio settles *)
CleanupResponse(o) ==
    /\ pc = "cleanup"
    /\ cleanups' = Append(cleanups, o)
    /\ IF o.type = "completion"
       THEN /\ pc' = "done"
            /\ result' = Returned(VendorTranscript(o.json.text,
                                                   outcomes[Len(outcomes)].json.text))
            /\ UNCHANGED <<lastError, delays>>
       ELSE VendorCatch(Err("Error", "", o.body))
    /\ UNCHANGED <<fn, platformOS, abortStyle, audioData, apiKey, attempt, gets,
                   posts, chats, health, outcomes, speakers, processedWords, timers>>
    /\ UNCHANGED <<heuristicVars, screenVars, storeVars, recordVars>>

(* the backoff timer fires: next iteration of the loop, up to its fetch *)
SleepDone ==
    /\ pc = "sleep"
    /\ pc' = "post"
    /\ attempt' = attempt + 1
    /\ posts' = posts + 1
    /\ timers' = timers \cup {attempt + 1}
    /\ UNCHANGED <<fn, platformOS, abortStyle, audioData, apiKey, lastError, gets,
                   chats, delays, health, outcomes, cleanups, result, speakers,
                   processedWords>>
    /\ UNCHANGED <<heuristicVars, screenVars, storeVars, recordVars>>

(* a timer left armed by a fetch that is over fires: abort() has no effect *)
StaleTimerFires(t) ==
    /\ t \in timers
    /\ ~(pc = "health" /\ t = 0)
    /\ ~(pc = "post" /\ t = attempt)
    /\ timers' = timers \ {t}
    /\ UNCHANGED <<pc, fn, platformOS, abortStyle, audioData, apiKey, attempt, lastError,
                   gets, posts, chats, delays, health, outcomes, cleanups, result,
                   speakers, processedWords>>
    /\ UNCHANGED <<heuristicVars, screenVars, storeVars, recordVars>>

(* generateSummary is called, up to the await of its chat completion *)
CallSummary(key) ==
    /\ pc = "idle"
    /\ fn' = "generateSummary"
    /\ apiKey' = key
    /\ IF key = ""
       THEN /\ Throw(MsgSummaryKeyMissing)
            /\ UNCHANGED chats
       ELSE /\ pc' = "summary"
            /\ chats' = chats + 1
            /\ UNCHANGED result
    /\ UNCHANGED <<platformOS, abortStyle, audioData, attempt, lastError, gets, posts,
                   delays, health, outcomes, cleanups, speakers, processedWords, timers>>
    /\ UNCHANGED <<heuristicVars, screenVars, storeVars, recordVars>>

(* the chat completion of generateSummary settles *)
SummaryResponse(o) ==
    /\ pc = "summary"
    /\ cleanups' = Append(cleanups, o)
    /\ pc' = "done"
    /\ result' = IF SummaryThrown(o) = NoSummaryError
                 THEN Returned(o.json.text)
                 ELSE Thrown(SummarySurface(SummaryThrown(o)))
    /\ UNCHANGED <<fn, platformOS, abortStyle, audioData, apiKey, attempt, lastError,
                   gets, posts, chats, delays, health, outcomes, speakers,
                   processedWords, timers>>
    /\ UNCHANGED <<heuristicVars, screenVars, storeVars, recordVars>>

(* the caller has the result; the next call starts from scratch *)
Finish ==
    /\ pc = "done"
    /\ pc' = "idle"
    /\ fn' = "none"
    /\ platformOS' = "web"
    /\ abortStyle' = "AbortError"
    /\ audioData' = NoAudio
    /\ apiKey' = ""
    /\ attempt' = 0
    /\ lastError' = NoError
    /\ gets' = 0
    /\ posts' = 0
    /\ chats' = 0
    /\ delays' = <<>>
    /\ health' = NoOutcome
    /\ outcomes' = <<>>
    /\ cleanups' = <<>>
    /\ result' = NoResult
    /\ speakers' = <<>>
    /\ processedWords' = <<>>
    /\ timers' = {}
    /\ UNCHANGED <<heuristicVars, screenVars, storeVars, recordVars>>

Next ==
    \/ \E os \in Platforms : \E style \in AbortStyles(os) :
           \E audio \in AudioInputs(os) : \E key \in ApiKeys :
               CallRemote(os, style, audio, key)
    \/ \E os \in Platforms : \E style \in AbortStyles(os) :
           \E audio \in AudioInputs(os) : \E sp \in SpeakerSets : \E key \in ApiKeys :
               CallVendor(os, style, audio, sp, key)
    \/ \E o \in HealthOutcomes : HealthResponse(o)
    \/ HeadersArrive
    \/ \E o \in PostOutcomes : RemotePostResponse(o)
    \/ \E o \in PostOutcomes : VendorPostResponse(o)
    \/ \E o \in ChatOutcomes : CleanupResponse(o)
    \/ SleepDone
    \/ \E t \in 0 .. VendorMaxRetries : StaleTimerFires(t)
    \/ \E key \in ApiKeys : CallSummary(key)
    \/ \E o \in SummaryOutcomes : SummaryResponse(o)
    \/ Finish

----------------------------------------------------------------------------
(* The speaker heuristic on its own: transcribeAudio tags the words of a *)
(* Whisper response for a set of speakers                                 *)

HeuristicRun(words, sp) ==
    /\ hWords = <<>>
    /\ hWords' = words
    /\ hSpeakers' = sp
    /\ hProcessed' \in ProcessWords(words, sp)
    /\ UNCHANGED <<clientVars, screenVars, storeVars, recordVars>>

(* the next response starts from scratch *)
HeuristicReset ==
    /\ hWords # <<>>
    /\ hWords' = <<>>
    /\ hSpeakers' = <<>>
    /\ hProcessed' = <<>>
    /\ UNCHANGED <<clientVars, screenVars, storeVars, recordVars>>

HeuristicNext ==
    \/ hWords = <<>>
           /\ \E words \in WordLists : \E sp \in HeuristicSpeakerSets : HeuristicRun(words, sp)
    \/ HeuristicReset

----------------------------------------------------------------------------
(* The recordings store *)

StoreIds == {"a", "b"}

StoreSpeakerIds == {"1", "2"}

(* a recording as a caller passes it to addRecording; speakers by their ids *)
NewRecording(id, title, sp) == [id |-> id, title |-> title, speakers |-> sp]

NewRecordings ==
    {NewRecording(id, "Recording", sp) : id \in StoreIds, sp \in {<<>>, <<"7">>}}

(* the arguments transcript and words of updateTranscript; words is optional,
   and the store never looks inside it: a word list is named, not spelled out *)
TranscriptInputs ==
    {[transcript |-> "bonjour", words |-> "words of bonjour"],
     [transcript |-> "bonjour monde", words |-> Undefined]}

SummaryInputs == {"resume"}

AddRecordingOp(recs, recording) ==
    <<[id |-> recording.id, title |-> recording.title,
       transcript |-> Undefined, words |-> Undefined, summary |-> Undefined,
       speakers |-> <<"1">>, currentSpeakerId |-> "1"]>> \o recs

(* recordings.filter((r) => r.id !== id) *)
DeleteRecordingOp(recs, id) ==
    LET Keep(r) == r.id # id IN SelectSeq(recs, Keep)

(* variant of UpdateTranscriptOp that writes the transcript into every recording *)
UpdateTranscriptOp_EveryRecording(recs, id, transcript, words) ==
    [i \in DOMAIN recs |-> [recs[i] EXCEPT !.transcript = transcript, !.words = words]]

(* recordings.map((r) => r.id === id ? { ...r, transcript, words } : r) *)
UpdateTranscriptOp(recs, id, transcript, words) ==
    [i \in DOMAIN recs |->
        IF recs[i].id = id
        THEN [recs[i] EXCEPT !.transcript = transcript, !.words = words]
        ELSE recs[i]]

UpdateSummaryOp(recs, id, summary) ==
    [i \in DOMAIN recs |->
        IF recs[i].id = id THEN [recs[i] EXCEPT !.summary = summary] ELSE recs[i]]

AddSpeakerOp(recs, recordingId, speaker) ==
    [i \in DOMAIN recs |->
        IF recs[i].id = recordingId
        THEN [recs[i] EXCEPT !.speakers = Append(@, speaker)]
        ELSE recs[i]]

UpdateCurrentSpeakerOp(recs, recordingId, speakerId) ==
    [i \in DOMAIN recs |->
        IF recs[i].id = recordingId
        THEN [recs[i] EXCEPT !.currentSpeakerId = speakerId]
        ELSE recs[i]]

StoreInit ==
    /\ recordings = <<>>
    /\ storeOps = 0

AddRecording(recording) ==
    /\ storeOps < MaxStoreOps
    /\ storeOps' = storeOps + 1
    /\ recordings' = AddRecordingOp(recordings, recording)
    /\ UNCHANGED <<clientVars, heuristicVars, screenVars, recordVars>>

DeleteRecording(id) ==
    /\ storeOps < MaxStoreOps
    /\ storeOps' = storeOps + 1
    /\ recordings' = DeleteRecordingOp(recordings, id)
    /\ UNCHANGED <<clientVars, heuristicVars, screenVars, recordVars>>

UpdateTranscript(id, transcript, words) ==
    /\ storeOps < MaxStoreOps
    /\ storeOps' = storeOps + 1
    /\ recordings' = UpdateTranscriptOp(recordings, id, transcript, words)
    /\ UNCHANGED <<clientVars, heuristicVars, screenVars, recordVars>>

UpdateSummary(id, summary) ==
    /\ storeOps < MaxStoreOps
    /\ storeOps' = storeOps + 1
    /\ recordings' = UpdateSummaryOp(recordings, id, summary)
    /\ UNCHANGED <<clientVars, heuristicVars, screenVars, recordVars>>

AddSpeaker(recordingId, speaker) ==
    /\ storeOps < MaxStoreOps
    /\ storeOps' = storeOps + 1
    /\ recordings' = AddSpeakerOp(recordings, recordingId, speaker)
    /\ UNCHANGED <<clientVars, heuristicVars, screenVars, recordVars>>

UpdateCurrentSpeaker(recordingId, speakerId) ==
    /\ storeOps < MaxStoreOps
    /\ storeOps' = storeOps + 1
    /\ recordings' = UpdateCurrentSpeakerOp(recordings, recordingId, speakerId)
    /\ UNCHANGED <<clientVars, heuristicVars, screenVars, recordVars>>

StoreNext ==
    \/ \E recording \in NewRecordings : AddRecording(recording)
    \/ \E id \in StoreIds : DeleteRecording(id)
    \/ \E id \in StoreIds : \E t \in TranscriptInputs :
           UpdateTranscript(id, t.transcript, t.words)
    \/ \E id \in StoreIds : \E summary \in SummaryInputs : UpdateSummary(id, summary)
    \/ \E id \in StoreIds : \E speaker \in StoreSpeakerIds : AddSpeaker(id, speaker)
    \/ \E id \in StoreIds : \E speakerId \in StoreSpeakerIds :
           UpdateCurrentSpeaker(id, speakerId)

----------------------------------------------------------------------------
(* The transcribe control of the transcripts screen *)

RecordingIds == {"r1", "r2"}

(* Bound of ScreenSpec: handleTranscribe calls awaiting the client, per recording *)
MaxInFlight == 2

TranscriptionModes == {"remote", "openai", "local"}

ScreenInit ==
    /\ processingId = "null"
    /\ inFlight = [id \in RecordingIds |-> 0]
    /\ serviceStatus = "unknown"
    /\ settingsMode = "remote"
    /\ keysSet = {}

CanTranscribe ==
    IF settingsMode = "remote" THEN "remote" \in keysSet /\ serviceStatus # "unavailable"
    ELSE IF settingsMode = "openai" THEN "openai" \in keysSet
    ELSE FALSE

(* disabled={processingId === item.id || !canTranscribe()} *)
TranscribeDisabled(id) == processingId = id \/ ~CanTranscribe

(* the settings screen: a mode is picked *)
SelectMode(mode) ==
    /\ settingsMode' = mode
    /\ UNCHANGED <<processingId, inFlight, serviceStatus, keysSet>>
    /\ UNCHANGED <<clientVars, heuristicVars, storeVars, recordVars>>

(* the settings screen: the key of the current mode is saved *)
SaveApiKey ==
    /\ settingsMode \in {"remote", "openai"}
    /\ keysSet' = keysSet \cup {settingsMode}
    /\ UNCHANGED <<processingId, inFlight, serviceStatus, settingsMode>>
    /\ UNCHANGED <<clientVars, heuristicVars, storeVars, recordVars>>

(* checkServiceStatus, on mount and from the retry control, with the answer o to its GET *)
CheckServiceStatus(o) ==
    /\ settingsMode = "remote"
    /\ serviceStatus' = IF o.type = "response" /\ (o.status = 405 \/ ResponseOk(o))
                        THEN "available" ELSE "unavailable"
    /\ UNCHANGED <<processingId, inFlight, settingsMode, keysSet>>
    /\ UNCHANGED <<clientVars, heuristicVars, storeVars, recordVars>>

(* the ids of the recordings in the store: the rows of the screen's list *)
StoredIds == {recordings[i].id : i \in DOMAIN recordings}

(* the checks of handleTranscribe on the mode, the key and the service status *)
SettingsAccepted ==
    IF settingsMode = "remote" THEN "remote" \in keysSet /\ serviceStatus # "unavailable"
    ELSE IF settingsMode = "openai" THEN "openai" \in keysSet
    ELSE FALSE

(* what a handleTranscribe call awaiting the client or the file system ends with *)
TranscribeOutcomes == {"transcript", "connection error", "other error"}

ScreenTranscript == "bonjour"

(* transcript.split(' ').map(...): the word list made from the transcript *)
ScreenWords == "words of bonjour"

(* the record screen saves a recording under a fresh id *)
SaveRecording(id) ==
    /\ id \notin StoredIds
    /\ inFlight[id] = 0
    /\ recordings' = AddRecordingOp(recordings, NewRecording(id, "Recording", <<>>))
    /\ UNCHANGED <<screenVars, storeOps>>
    /\ UNCHANGED <<clientVars, heuristicVars, recordVars>>

(* the library screen: handleDelete of a recording, confirmed *)
HandleDelete(id) ==
    /\ id \in StoredIds
    /\ recordings' = DeleteRecordingOp(recordings, id)
    /\ UNCHANGED <<screenVars, storeOps>>
    /\ UNCHANGED <<clientVars, heuristicVars, recordVars>>

(* the transcribe control of recording id is pressed: handleTranscribe up to *)
(* its first await, or to its end when the audio (web: the data URI) or the  *)
(* settings are rejected before it: try, throw, catch and finally in one go  *)
HandleTranscribe(id, audioOk) ==
    /\ id \in StoredIds
    /\ ~TranscribeDisabled(id)
    /\ IF audioOk /\ SettingsAccepted
       THEN /\ inFlight[id] < MaxInFlight
            /\ processingId' = id
            /\ inFlight' = [inFlight EXCEPT ![id] = @ + 1]
       ELSE /\ processingId' = "null"
            /\ UNCHANGED inFlight
    /\ UNCHANGED <<serviceStatus, settingsMode, keysSet>>
    /\ UNCHANGED <<clientVars, heuristicVars, storeVars, recordVars>>

(* variant of TranscribeSettles that writes to the store whatever the outcome *)
TranscribeSettles_WritesOnFailure(id, outcome) ==
    /\ inFlight[id] > 0
    /\ inFlight' = [inFlight EXCEPT ![id] = @ - 1]
    /\ recordings' = UpdateTranscriptOp(recordings, id, ScreenTranscript, ScreenWords)
    /\ serviceStatus' = IF outcome = "connection error" THEN "unavailable" ELSE serviceStatus
    /\ processingId' = "null"
    /\ UNCHANGED <<settingsMode, keysSet, storeOps>>
    /\ UNCHANGED <<clientVars, heuristicVars, recordVars>>

(* a call of handleTranscribe(id) settles: the rest of the try or the catch, *)
(* then finally                                                              *)
TranscribeSettles(id, outcome) ==
    /\ inFlight[id] > 0
    /\ inFlight' = [inFlight EXCEPT ![id] = @ - 1]
    /\ recordings' = IF outcome = "transcript"
                     THEN UpdateTranscriptOp(recordings, id, ScreenTranscript, ScreenWords)
                     ELSE recordings
    /\ serviceStatus' = IF outcome = "connection error" THEN "unavailable" ELSE serviceStatus
    /\ processingId' = "null"
    /\ UNCHANGED <<settingsMode, keysSet, storeOps>>
    /\ UNCHANGED <<clientVars, heuristicVars, recordVars>>

ScreenNext ==
    \/ \E mode \in TranscriptionModes : SelectMode(mode)
    \/ SaveApiKey
    \/ \E o \in HealthOutcomes : CheckServiceStatus(o)
    \/ \E id \in RecordingIds : SaveRecording(id)
    \/ \E id \in RecordingIds : HandleDelete(id)
    \/ \E id \in RecordingIds : \E audioOk \in BOOLEAN : HandleTranscribe(id, audioOk)
    \/ \E id \in RecordingIds : \E outcome \in TranscribeOutcomes :
           TranscribeSettles(id, outcome)

----------------------------------------------------------------------------
(* The record screen *)

(* Bound of RecordSpec: the readings of Date.now() *)
MaxClock == 3

RecordPlatforms == {"web", "native"}

(* mediaRecorderRef.current === null *)
NoRecorder == [state |-> "none", captured |-> "null"]

NotAwaiting == [active |-> FALSE, captured |-> "null", recording |-> FALSE]

RecordInit ==
    /\ recPlatform = "none"
    /\ isRecording = FALSE
    /\ isProcessing = FALSE
    /\ isUnloading = FALSE
    /\ currentRecordingId = "null"
    /\ nativeRecording = FALSE
    /\ mediaRecorder = NoRecorder
    /\ pendingOnstop = <<>>
    /\ resetTimers = 0
    /\ startAwait = NotAwaiting
    /\ stopAwait = NotAwaiting
    /\ clock = 0

(* Date.now().toString() at the reading n *)
TimeId(n) == ToString(n)

(* the screen is mounted on a platform, recording permitted *)
MountRecordScreen(os) ==
    /\ recPlatform = "none"
    /\ recPlatform' = os
    /\ UNCHANGED <<isRecording, isProcessing, isUnloading, currentRecordingId,
                   nativeRecording, mediaRecorder, pendingOnstop, resetTimers,
                   startAwait, stopAwait, clock>>
    /\ UNCHANGED <<clientVars, heuristicVars, screenVars, storeVars>>

(* the record control is pressed while it shows start: startRecording up to   *)
(* its await of the recorder.  The closures of this render keep the values of *)
(* currentRecordingId and recording from before the press.  One startRecording *)
(* awaits at a time.                                                          *)
StartRecording ==
    /\ recPlatform # "none"
    /\ ~isRecording /\ ~isProcessing
    /\ ~startAwait.active
    /\ clock < MaxClock
    /\ clock' = clock + 1
    /\ currentRecordingId' = TimeId(clock + 1)
    /\ isRecording' = TRUE
    /\ startAwait' = [active |-> TRUE, captured |-> currentRecordingId,
                      recording |-> nativeRecording]
    /\ UNCHANGED <<recPlatform, isProcessing, isUnloading, nativeRecording,
                   mediaRecorder, pendingOnstop, resetTimers, stopAwait>>
    /\ UNCHANGED <<clientVars, heuristicVars, screenVars, storeVars>>

(* the recorder awaited by startRecording is there: on the web              *)
(* startWebRecording installs it with its onstop closure and starts it      *)
StartCompletes ==
    /\ startAwait.active
    /\ startAwait' = NotAwaiting
    /\ IF recPlatform = "web"
       THEN /\ mediaRecorder' = [state |-> "recording", captured |-> startAwait.captured]
            /\ UNCHANGED nativeRecording
       ELSE /\ nativeRecording' = TRUE
            /\ UNCHANGED mediaRecorder
    /\ UNCHANGED <<recPlatform, isRecording, isProcessing, isUnloading,
                   currentRecordingId, pendingOnstop, resetTimers, stopAwait, clock>>
    /\ UNCHANGED <<clientVars, heuristicVars, screenVars, storeVars>>

(* the await of startRecording throws: its catch calls cleanupRecording *)
StartFails ==
    /\ startAwait.active
    /\ startAwait' = NotAwaiting
    /\ IF recPlatform = "web"
       THEN /\ mediaRecorder' = NoRecorder
            /\ pendingOnstop' = IF mediaRecorder.state = "recording"
                                THEN Append(pendingOnstop, mediaRecorder.captured)
                                ELSE pendingOnstop
            /\ UNCHANGED nativeRecording
       ELSE /\ nativeRecording' = IF startAwait.recording /\ ~isUnloading
                                  THEN FALSE ELSE nativeRecording
            /\ UNCHANGED <<mediaRecorder, pendingOnstop>>
    /\ isRecording' = FALSE
    /\ currentRecordingId' = "null"
    /\ isUnloading' = FALSE
    /\ UNCHANGED <<recPlatform, isProcessing, resetTimers, stopAwait, clock>>
    /\ UNCHANGED <<clientVars, heuristicVars, screenVars, storeVars>>

(* if (!currentRecordingId || isUnloading.current || !isRecording) return *)
StopReturnsEarly == currentRecordingId = "null" \/ isUnloading \/ ~isRecording

(* the record control is pressed while it shows stop, on the web:            *)
(* stopRecording, all of it; the reset of the id and of isUnloading is left  *)
(* to a timer of 100 ms                                                      *)
StopWebRecording ==
    /\ recPlatform = "web"
    /\ isRecording /\ ~isProcessing
    /\ ~StopReturnsEarly
    /\ isUnloading' = TRUE
    /\ IF mediaRecorder.state = "recording"
       THEN /\ mediaRecorder' = [mediaRecorder EXCEPT !.state = "inactive"]
            /\ pendingOnstop' = Append(pendingOnstop, mediaRecorder.captured)
       ELSE UNCHANGED <<mediaRecorder, pendingOnstop>>
    /\ isRecording' = FALSE
    /\ isProcessing' = FALSE
    /\ resetTimers' = resetTimers + 1
    /\ UNCHANGED <<recPlatform, currentRecordingId, nativeRecording,
                   startAwait, stopAwait, clock>>
    /\ UNCHANGED <<clientVars, heuristicVars, screenVars, storeVars>>

(* the record control is pressed while it shows stop, on a device:            *)
(* stopRecording up to its await of stopAndUnloadAsync, or to its end when    *)
(* this render has no recording object                                        *)
StopNativeRecording ==
    /\ recPlatform = "native"
    /\ isRecording /\ ~isProcessing
    /\ ~StopReturnsEarly
    /\ IF nativeRecording
       THEN /\ isProcessing' = TRUE
            /\ isUnloading' = TRUE
            /\ stopAwait' = [active |-> TRUE, captured |-> currentRecordingId,
                             recording |-> TRUE]
            /\ UNCHANGED <<isRecording, currentRecordingId>>
       ELSE /\ isRecording' = FALSE
            /\ currentRecordingId' = "null"
            /\ isUnloading' = FALSE
            /\ isProcessing' = FALSE
            /\ UNCHANGED stopAwait
    /\ UNCHANGED <<recPlatform, nativeRecording, mediaRecorder, pendingOnstop,
                   resetTimers, startAwait, clock, recordings, storeOps>>
    /\ UNCHANGED <<clientVars, heuristicVars, screenVars>>

(* the native stopRecording goes on after its await: the recording is saved *)
(* unless stopping threw; then the finally block                            *)
StopCompletes(threw) ==
    /\ stopAwait.active
    /\ stopAwait' = NotAwaiting
    /\ recordings' = IF threw THEN recordings
                     ELSE AddRecordingOp(recordings,
                                         NewRecording(stopAwait.captured, "Recording", <<>>))
    /\ nativeRecording' = FALSE
    /\ isRecording' = FALSE
    /\ currentRecordingId' = "null"
    /\ isUnloading' = FALSE
    /\ isProcessing' = FALSE
    /\ UNCHANGED <<recPlatform, mediaRecorder, pendingOnstop, resetTimers, startAwait,
                   clock, storeOps>>
    /\ UNCHANGED <<clientVars, heuristicVars, screenVars>>

(* the onstop event of a stopped MediaRecorder: the recording is saved under *)
(* the id its closure captured, or under Date.now() when that was null       *)
Onstop ==
    /\ pendingOnstop # <<>>
    /\ pendingOnstop' = Tail(pendingOnstop)
    /\ IF Head(pendingOnstop) # "null"
       THEN /\ recordings' = AddRecordingOp(recordings,
                                 NewRecording(Head(pendingOnstop), "Recording", <<>>))
            /\ UNCHANGED clock
       ELSE /\ clock < MaxClock
            /\ clock' = clock + 1
            /\ recordings' = AddRecordingOp(recordings,
                                 NewRecording(TimeId(clock + 1), "Recording", <<>>))
    /\ UNCHANGED <<recPlatform, isRecording, isProcessing, isUnloading, currentRecordingId,
                   nativeRecording, mediaRecorder, resetTimers, startAwait, stopAwait,
                   storeOps>>
    /\ UNCHANGED <<clientVars, heuristicVars, screenVars>>

(* a 100 ms timer set by the web stopRecording fires *)
DelayedReset ==
    /\ resetTimers > 0
    /\ resetTimers' = resetTimers - 1
    /\ currentRecordingId' = "null"
    /\ isUnloading' = FALSE
    /\ UNCHANGED <<recPlatform, isRecording, isProcessing, nativeRecording,
                   mediaRecorder, pendingOnstop, startAwait, stopAwait, clock>>
    /\ UNCHANGED <<clientVars, heuristicVars, screenVars, storeVars>>

RecordNext ==
    \/ \E os \in RecordPlatforms : MountRecordScreen(os)
    \/ StartRecording
    \/ StartCompletes
    \/ StartFails
    \/ StopWebRecording
    \/ StopNativeRecording
    \/ \E threw \in BOOLEAN : StopCompletes(threw)
    \/ Onstop
    \/ DelayedReset

----------------------------------------------------------------------------
(* Specifications *)

Init == ClientInit /\ HeuristicInit /\ ScreenInit /\ StoreInit /\ RecordInit

Spec == Init /\ [][Next]_vars

HeuristicSpec == Init /\ [][HeuristicNext]_vars

ScreenSpec == Init /\ [][ScreenNext]_vars

StoreSpec == Init /\ [][StoreNext]_vars

RecordSpec == Init /\ [][RecordNext]_vars

----------------------------------------------------------------------------
(* The error category a caller reads off a finished call *)

Category(r) ==
    IF r.status # "thrown" THEN "None"
    ELSE IF r.value \in {MsgProcessingWeb, MsgProcessingNative} THEN "InvalidAudio"
    ELSE IF r.value \in {MsgTooLarge, MsgUploadTooLarge} THEN "PayloadTooLarge"
    ELSE IF r.value \in {MsgRemoteAuth, MsgVendorAuth} THEN "AuthenticationError"
    ELSE IF r.value = MsgRemoteNotFound THEN "ServiceNotFound"
    ELSE IF r.value = MsgRemoteMethod THEN "MethodNotAllowed"
    ELSE IF r.value \in {MsgHealthUnavailable, MsgRemoteUnavailable} THEN "ServiceUnavailable"
    ELSE IF r.value = MsgRateLimited THEN "RateLimited"
    ELSE IF r.value = MsgVendorQuota THEN "QuotaExceeded"
    ELSE IF r.value \in {MsgRemoteConnect, MsgVendorNetwork} THEN "NetworkUnreachable"
    ELSE IF \/ r.value \in {MsgRemoteTimeout, MsgVendorTimeout}
            \/ Includes(r.value, MsgRemoteAttemptTimeout[1])
            \/ Includes(r.value, MsgVendorAttemptTimeout[1]) THEN "Timeout"
    ELSE "Unknown"

MaxRetries(f) == IF f = "transcribeAudioRemote" THEN RemoteMaxRetries ELSE VendorMaxRetries

HttpFailure(o) == o.type = "response" /\ ~ResponseOk(o)

LastOutcome == outcomes[Len(outcomes)]

----------------------------------------------------------------------------
(* Claims *)

(* C1: a call with a payload above 25 MiB fails with PayloadTooLarge and has *)
(* issued no outbound request (no health GET, no POST) and slept no backoff. *)
C1_TooLargeFailsBeforeAnyRequest ==
    (pc # "idle" /\ apiKey # "" /\ audioData.size > MAX_FILE_SIZE)
        => /\ gets = 0 /\ posts = 0 /\ chats = 0 /\ delays = <<>>
           /\ pc = "done"
           /\ Category(result) = "PayloadTooLarge"

(* C2: a call on a zero-length or missing audio handle ends with InvalidAudio *)
(* and sends no transcription POST, on either backend and platform.           *)
C2_EmptyOrMissingIsInvalidAudio ==
    (/\ pc # "idle"
     /\ fn \in {"transcribeAudioRemote", "transcribeAudio"}
     /\ apiKey # ""
     /\ (audioData.size = 0 \/ ~audioData.exists))
        => /\ posts = 0
           /\ pc = "done" => Category(result) = "InvalidAudio"

(* C3: when the first POST is answered with HTTP 401 the call makes exactly *)
(* one POST, sleeps no backoff and fails with AuthenticationError.          *)
C3_Http401IsNotRetried ==
    (Len(outcomes) >= 1 /\ outcomes[1].type = "response" /\ outcomes[1].status = 401)
        => /\ posts = 1
           /\ delays = <<>>
           /\ pc = "done"
           /\ Category(result) = "AuthenticationError"

C4Script ==
    <<TimerAbort, TimerAbort,
      Response(200, <<>>, [transcription |-> "", text |-> "bonjour le monde"])>>

(* C4: on the vendor backend, against a backend that times out on the POSTs *)
(* of attempts 1 and 2 and answers the third, the call returns the          *)
(* transcript, and the delays slept are non-decreasing and at most the cap. *)
C4_TwoTimeoutsThenSuccess ==
    (/\ fn = "transcribeAudio"
     /\ pc = "done"
     /\ Len(outcomes) >= 1
     /\ outcomes = SubSeq(C4Script, 1, Len(outcomes)))
        => /\ outcomes = C4Script
           /\ result.status = "returned"
           /\ \A i \in DOMAIN delays : delays[i] <= 10000
           /\ \A i \in DOMAIN delays : \A j \in DOMAIN delays :
                  i <= j => delays[i] <= delays[j]

(* C5: when every POST of a call times out, the call fails with Timeout *)
(* after exactly as many POSTs as the attempt cap of its backend.       *)
C5_AlwaysTimeoutExhaustsCap ==
    (/\ pc = "done"
     /\ Len(outcomes) >= 1
     /\ \A i \in DOMAIN outcomes : outcomes[i] = TimerAbort)
        => /\ Category(result) = "Timeout"
           /\ posts = MaxRetries(fn)

Transient(o) ==
    \/ o.type \in {"abort", "networkError"}
    \/ HttpFailure(o) /\ (o.status = 0 \/ o.status >= 500)

(* C6: a call ends on a transient POST failure (status >= 500 or 0, timeout, *)
(* network exception) only when the attempt cap of its backend is reached.   *)
C6_TransientIsRetriedUpToCap ==
    (pc = "done" /\ Len(outcomes) >= 1 /\ Transient(LastOutcome))
        => posts = MaxRetries(fn)

(* C7: after a POST that failed with 401, 403, 404, 405 or 413 there is no *)
(* further POST and no backoff sleep: the call is over.                    *)
C7_TerminalStatusEndsCall ==
    \A i \in DOMAIN outcomes :
        (HttpFailure(outcomes[i]) /\ outcomes[i].status \in {401, 403, 404, 405, 413})
            => /\ pc = "done"
               /\ posts = i
               /\ Len(delays) < i

(* C8: after a POST that failed with 429, or on the vendor with an          *)
(* insufficient_quota body, there is no further attempt: the call is over.  *)
C8_RateLimitEndsCall ==
    \A i \in DOMAIN outcomes :
        (/\ HttpFailure(outcomes[i])
         /\ \/ outcomes[i].status = 429
            \/ fn = "transcribeAudio" /\ Includes(outcomes[i].body, "insufficient_quota"))
            => /\ pc = "done"
               /\ posts = i
               /\ Len(delays) < i

(* C9: once the health GET is answered, transcribeAudioRemote has failed with *)
(* the probe's ServiceUnavailable and no POST exactly when the answer is      *)
(* neither a success status nor 405.                                          *)
C9_ProbeShortCircuit ==
    (fn = "transcribeAudioRemote" /\ health.type = "response")
        => ((pc = "done" /\ result = Thrown(MsgHealthUnavailable) /\ posts = 0)
                <=> ~(ResponseOk(health) \/ health.status = 405))

(* C10: when a relay call with a key and a payload of 1 byte to 25 MiB gets   *)
(* {transcription: T}, T non-empty, as the answer to its first POST, the call *)
(* is over, has returned exactly T and has made one POST.                     *)
C10_RelaySuccessReturnsTranscription ==
    (/\ fn = "transcribeAudioRemote"
     /\ apiKey # ""
     /\ audioData.exists /\ audioData.size > 0 /\ audioData.size <= MAX_FILE_SIZE
     /\ Len(outcomes) >= 1
     /\ ResponseOk(outcomes[1])
     /\ outcomes[1].json.transcription # "")
        => /\ pc = "done"
           /\ result = Returned(outcomes[1].json.transcription)
           /\ posts = 1
           /\ delays = <<>>

C10_Witness ==
    /\ pc = "done"
    /\ fn = "transcribeAudioRemote"
    /\ audioData.size = 2 * 1024 * 1024
    /\ posts = 1
    /\ outcomes = <<Response(200, <<>>, [transcription |-> "bonjour le monde", text |-> ""])>>
    /\ result = Returned("bonjour le monde")

----------------------------------------------------------------------------
(* Claims on the speaker heuristic (HeuristicSpec) *)

(* the words are in time order *)
TimeOrdered(words) ==
    \A i \in 1 .. Len(words) - 1 : words[i].start <= words[i + 1].start

(* every gap between a word's end and the next word's start is below 2 s *)
ShortGaps(words) ==
    \A i \in 1 .. Len(words) - 1 : words[i + 1].start - words[i].end < 2

HeuristicTagged ==
    /\ hWords # <<>>
    /\ Len(hProcessed) = Len(hWords)

(* C11, as stated: for a word list in time order whose gaps are all below *)
(* 2 s, every produced word carries the tag of the initial speaker.       *)
C11_ShortGapsKeepInitialSpeaker ==
    (HeuristicTagged /\ TimeOrdered(hWords) /\ ShortGaps(hWords))
        => \A i \in DOMAIN hProcessed :
               hProcessed[i].speakerId = InitialSpeakerId(hSpeakers)

(* C11, amended: for a word list in time order whose gaps are all below 2 s, *)
(* all produced words carry one and the same tag, one of the speaker set's,  *)
(* and it is the initial speaker's when the first word starts at most 2 s    *)
(* after the beginning of the audio.                                         *)
C11_ShortGapsKeepOneSpeaker ==
    (HeuristicTagged /\ TimeOrdered(hWords) /\ ShortGaps(hWords))
        => /\ \A i \in DOMAIN hProcessed :
                  /\ hProcessed[i].speakerId = hProcessed[1].speakerId
                  /\ hProcessed[i].text = hWords[i].text
           /\ hProcessed[1].speakerId \in RandomSpeakerIds(hSpeakers)
           /\ hWords[1].start <= 2
                  => hProcessed[1].speakerId = InitialSpeakerId(hSpeakers)

C11_Witness ==
    /\ Len(hWords) = 2
    /\ TimeOrdered(hWords) /\ ShortGaps(hWords)
    /\ hWords[1].start > 2
    /\ hSpeakers = <<"1", "2">>
    /\ \A i \in DOMAIN hProcessed : hProcessed[i].speakerId = "2"
    /\ Len(hProcessed) = 2

----------------------------------------------------------------------------
(* Claims on the client (Spec), continued *)

(* C12: once the chat-completion call of transcribeAudio has failed, the call *)
(* is over and has returned the raw text of the Whisper answer; no POST and   *)
(* no second chat completion follows the failure.                             *)
C12_CleanupFailureFallsBackToRawText ==
    (fn = "transcribeAudio" /\ \E i \in DOMAIN cleanups : cleanups[i].type = "chatError")
        => /\ pc = "done"
           /\ result = Returned(LastOutcome.json.text)
           /\ ResponseOk(LastOutcome)
           /\ Len(cleanups) = 1

(* the POSTs and the attempt number of a call in a state *)
AttemptsWithinCap ==
    /\ posts <= MaxRetries(fn)
    /\ posts = attempt
    /\ Len(outcomes) <= posts
    /\ pc \in {"post", "body"} => (attempt >= 1 /\ Len(outcomes) = attempt - 1)

(* a step that changes the attempt number starts attempt 1 of a call, goes *)
(* to the next attempt with one more POST, or ends the call                *)
AttemptStep ==
    attempt' # attempt
        => \/ attempt = 0 /\ attempt' = 1 /\ posts' = 1
           \/ attempt >= 1 /\ attempt' = attempt + 1 /\ posts' = posts + 1
           \/ pc = "done" /\ attempt' = 0 /\ posts' = 0

(* C13: at every moment of a call the POSTs sent are at most the cap of the  *)
(* backend (2 relay, 3 vendor) and as many as the attempt number; the        *)
(* attempt number starts at 1 and grows by exactly 1, each time with 1 POST. *)
C13_PostsBoundedOnePerAttempt == [](fn # "none" => AttemptsWithinCap) /\ [][AttemptStep]_vars

C13_Witness ==
    /\ pc = "done"
    /\ fn = "transcribeAudio"
    /\ attempt = VendorMaxRetries
    /\ posts = VendorMaxRetries
    /\ Len(outcomes) = VendorMaxRetries
    /\ Len(delays) = VendorMaxRetries - 1

(* what the try block of backend f throws on POST outcome o *)
ThrownOf(f, o, style) ==
    IF f = "transcribeAudioRemote" THEN RemoteThrown(o, style) ELSE VendorThrown(o, style)

(* the category backend f gives a failed POST: the one it surfaces when the *)
(* call ends on that failure                                                *)
AttemptCategory(f, o, style) ==
    IF f = "transcribeAudioRemote"
    THEN Category(Thrown(RemoteSurface(LastErrorOf(RemoteThrown(o, style),
                                                   MsgRemoteAttemptTimeout))))
    ELSE Category(Thrown(VendorSurface(LastErrorOf(VendorThrown(o, style),
                                                   MsgVendorAttemptTimeout))))

(* TRUE when backend f goes on to another attempt after failure o of attempt n *)
AttemptRetried(f, o, style, n) ==
    IF f = "transcribeAudioRemote"
    THEN ~RemoteBreaks(RemoteThrown(o, style), n)
    ELSE ~VendorBreaks(VendorThrown(o, style), n)

(* the POST of the current attempt has just failed *)
AttemptFailed ==
    /\ pc \in {"sleep", "done"}
    /\ cleanups = <<>>
    /\ Len(outcomes) >= 1
    /\ Len(outcomes) = attempt
    /\ ThrownOf(fn, LastOutcome, abortStyle) # NoError

(* C14: when an attempt has failed, any other failure of the same attempt    *)
(* that maps to the same category gets the same retry decision, and an HTTP  *)
(* failure with the same status and another body gets the same category and  *)
(* the same decision.                                                        *)
C14_CategoryDecidesRetry ==
    AttemptFailed
        => \A o \in PostOutcomes :
               ThrownOf(fn, o, abortStyle) # NoError
                   => /\ AttemptCategory(fn, o, abortStyle)
                             = AttemptCategory(fn, LastOutcome, abortStyle)
                         => (AttemptRetried(fn, o, abortStyle, attempt) <=> pc = "sleep")
                      /\ (HttpFailure(o) /\ HttpFailure(LastOutcome)
                              /\ o.status = LastOutcome.status)
                         => /\ AttemptCategory(fn, o, abortStyle)
                                   = AttemptCategory(fn, LastOutcome, abortStyle)
                            /\ AttemptRetried(fn, o, abortStyle, attempt) <=> pc = "sleep"

(* the category of an HTTP status *)
StatusCategory(status) ==
    IF status \in {401, 403} THEN "AuthenticationError"
    ELSE IF status = 404 THEN "ServiceNotFound"
    ELSE IF status = 405 THEN "MethodNotAllowed"
    ELSE IF status = 413 THEN "PayloadTooLarge"
    ELSE IF status = 429 THEN "RateLimited"
    ELSE IF status = 0 \/ status >= 500 THEN "ServiceUnavailable"
    ELSE "Unknown"

(* C15: a call that ended on an HTTP failure of its last POST surfaces the *)
(* category of that status, on both backends and whatever the body.        *)
C15_StatusDecidesCategory ==
    (/\ pc = "done"
     /\ result.status = "thrown"
     /\ cleanups = <<>>
     /\ Len(outcomes) >= 1
     /\ HttpFailure(LastOutcome))
        => Category(result) = StatusCategory(LastOutcome.status)

(* C16: every failure a call surfaces has one category of the taxonomy, and *)
(* a vendor call that ended on an HTTP failure whose body reports           *)
(* insufficient_quota surfaces QuotaExceeded, whatever the status.          *)
C16_QuotaBodyIsQuotaExceeded ==
    (pc = "done" /\ result.status = "thrown")
        => /\ Category(result) \in
                  {"InvalidAudio", "PayloadTooLarge", "AuthenticationError",
                   "ServiceNotFound", "MethodNotAllowed", "ServiceUnavailable",
                   "RateLimited", "Timeout", "NetworkUnreachable", "QuotaExceeded",
                   "Unknown"}
           /\ (/\ fn = "transcribeAudio"
               /\ cleanups = <<>>
               /\ Len(outcomes) >= 1
               /\ HttpFailure(LastOutcome)
               /\ Includes(LastOutcome.body, "insufficient_quota"))
                  => Category(result) = "QuotaExceeded"

----------------------------------------------------------------------------
(* Claims on the transcripts screen (ScreenSpec) *)

(* C17: no recording has two handleTranscribe calls awaiting the client, and *)
(* while one is awaiting it processingId is that recording's id, so that its *)
(* transcribe control is disabled.                                           *)
C17_OneCallPerRecording ==
    \A id \in RecordingIds :
        /\ inFlight[id] <= 1
        /\ inFlight[id] > 0 => (processingId = id /\ TranscribeDisabled(id))

----------------------------------------------------------------------------
(* Claims on the client (Spec), backoff and termination *)

BackoffBase(f) == IF f = "transcribeAudioRemote" THEN 500 ELSE 1000

BackoffCap(f) == IF f = "transcribeAudioRemote" THEN 3000 ELSE 10000

(* the delay slept after failed attempt n is min(base * 2^n, cap) *)
DelayLaw ==
    \A n \in DOMAIN delays :
        delays[n] = Min(BackoffBase(fn) * Pow2(n), BackoffCap(fn))

(* a POST failure of a terminal class: 401, 403, 404, 405, 413, 429, or an *)
(* insufficient_quota body on the vendor                                   *)
TerminalFailure(f, o) ==
    /\ HttpFailure(o)
    /\ \/ o.status \in {401, 403, 404, 405, 413, 429}
       \/ f = "transcribeAudio" /\ Includes(o.body, "insufficient_quota")

(* C18: the delay slept after failed attempt n is min(base * 2^n, cap) for a *)
(* base and a cap of the backend; no delay is slept after the last permitted *)
(* attempt nor after an attempt that failed terminally.                      *)
C18_BackoffLawAndNoSleepAfterEnd ==
    /\ DelayLaw
    /\ Len(delays) <= MaxRetries(fn) - 1 \/ fn = "none"
    /\ \A n \in DOMAIN delays : ~TerminalFailure(fn, outcomes[n])

TimeoutMessageOf(f) ==
    IF f = "transcribeAudioRemote" THEN MsgRemoteAttemptTimeout ELSE MsgVendorAttemptTimeout

SurfaceOf(f, last) ==
    IF f = "transcribeAudioRemote" THEN RemoteSurface(last) ELSE VendorSurface(last)

(* what the last attempt made threw: its POST failure, or the failure of the *)
(* chat completion that followed its POST                                    *)
LastFailure ==
    IF ThrownOf(fn, LastOutcome, abortStyle) = NoError /\ cleanups # <<>>
    THEN Err("Error", "", cleanups[Len(cleanups)].body)
    ELSE ThrownOf(fn, LastOutcome, abortStyle)

(* C19: a call that fails after at least one POST throws the message its   *)
(* backend gives the failure of the last attempt made, the attempt of the  *)
(* last POST, whatever the earlier attempts failed with.                   *)
C19_SurfacesLastAttemptFailure ==
    (pc = "done" /\ result.status = "thrown" /\ Len(outcomes) >= 1)
        => /\ Len(outcomes) = attempt
           /\ lastError = LastErrorOf(LastFailure, TimeoutMessageOf(fn))
           /\ result.value = SurfaceOf(fn, lastError)

C19_Witness ==
    /\ pc = "done"
    /\ fn = "transcribeAudio"
    /\ Len(outcomes) = 2
    /\ outcomes[1] = NetworkFailure(<<"Failed to fetch">>)
    /\ outcomes[2] = Response(401, <<>>, EmptyJson)
    /\ result = Thrown(MsgVendorAuth)
    /\ result.value # VendorSurface(LastErrorOf(VendorThrown(outcomes[1], abortStyle),
                                                MsgVendorAttemptTimeout))

(* C20: whatever a call awaits from the network is bounded by an armed timer *)
(* whose expiry aborts it: the probe's timer during the health GET, the      *)
(* attempt's timer during the POST and during the reading of its body.       *)
C20_EveryAwaitHasItsTimer ==
    /\ pc = "health" => 0 \in timers
    /\ pc \in {"post", "body"} => attempt \in timers

(* C21: when a call is over none of its timers is armed, and while an    *)
(* attempt awaits its POST or its body no timer of an earlier attempt or *)
(* of the health probe is armed.                                         *)
C21_NoTimerOutlivesItsAttempt ==
    /\ pc = "done" => timers = {}
    /\ pc \in {"post", "body"} => timers \subseteq {attempt}

KeyMissingMessage(f) ==
    IF f = "transcribeAudioRemote" THEN MsgRemoteKeyMissing
    ELSE IF f = "transcribeAudio" THEN MsgVendorKeyMissing
    ELSE MsgSummaryKeyMissing

(* C22: a call of transcribeAudioRemote, transcribeAudio or generateSummary  *)
(* with an empty key is over at once with the missing-key error, whatever    *)
(* the audio is, and has sent no GET, no POST and no chat completion, armed  *)
(* no timer and slept no delay.                                              *)
C22_MissingKeyFailsFirst ==
    (pc # "idle" /\ apiKey = "")
        => /\ pc = "done"
           /\ result = Thrown(KeyMissingMessage(fn))
           /\ gets = 0 /\ posts = 0 /\ chats = 0
           /\ timers = {} /\ delays = <<>>
           /\ health = NoOutcome /\ outcomes = <<>> /\ cleanups = <<>>

(* a transcription call without key on an audio that the payload checks reject *)
C22_Witness ==
    /\ pc = "done"
    /\ fn = "transcribeAudio"
    /\ apiKey = ""
    /\ audioData.size > MAX_FILE_SIZE
    /\ ProcessAudio(platformOS, audioData) # <<>>
    /\ result = Thrown(MsgVendorKeyMissing)
    /\ posts = 0

----------------------------------------------------------------------------
(* Claims on the transcripts screen (ScreenSpec), continued *)

(* C23: whenever checkServiceStatus has run on a probe outcome, the screen *)
(* holds the service available exactly when checkApiHealth returns true on *)
(* the same outcome.                                                       *)
C23_HealthChecksAgree ==
    [][\A o \in HealthOutcomes :
           CheckServiceStatus(o) => (serviceStatus' = "available" <=> CheckApiHealth(o))]_vars

(* The positions of recs whose recording does not carry the id *)
KeptPositions(recs, id) == {i \in DOMAIN recs : recs[i].id # id}

(* next is recs with nothing changed but the given fields of the recordings
   that carry the id: same length, same order, every other recording and
   every other field as before *)
OnlyFieldsChange(recs, next, id, fields) ==
    /\ Len(next) = Len(recs)
    /\ \A i \in DOMAIN recs :
           /\ DOMAIN next[i] = DOMAIN recs[i]
           /\ recs[i].id # id => next[i] = recs[i]
           /\ \A f \in DOMAIN recs[i] \ fields : next[i][f] = recs[i][f]

(* next is recs without the recordings that carry the id, the others in
   their relative order *)
OnlyIdRemoved(recs, next, id) ==
    /\ Len(next) = Cardinality(KeptPositions(recs, id))
    /\ \A i \in KeptPositions(recs, id) :
           next[Cardinality({j \in KeptPositions(recs, id) : j <= i})] = recs[i]

C24_HandleTranscribeEnds ==
    [][/\ \A id \in RecordingIds : \A outcome \in TranscribeOutcomes :
              TranscribeSettles(id, outcome)
                  => /\ processingId' = "null"
                     /\ outcome # "transcript" => recordings' = recordings
                     /\ outcome = "transcript"
                            => /\ OnlyFieldsChange(recordings, recordings', id,
                                                   {"transcript", "words"})
                               /\ \A i \in DOMAIN recordings :
                                      recordings[i].id = id
                                          => /\ recordings'[i].transcript = ScreenTranscript
                                             /\ recordings'[i].words = ScreenWords
       /\ \A id \in RecordingIds :
              (HandleTranscribe(id, FALSE) \/ (HandleTranscribe(id, TRUE) /\ inFlight' = inFlight))
                  => /\ processingId' = "null"
                     /\ recordings' = recordings]_vars

(* a transcription has succeeded for the recording behind the head and *)
(* a connection failure has ended another call: nothing is awaited, the guard *)
(* is null, the head has no transcript *)
C24_Witness ==
    /\ Len(recordings) = 2
    /\ recordings[2].transcript = ScreenTranscript
    /\ recordings[2].words = ScreenWords
    /\ recordings[1].transcript = Undefined
    /\ processingId = "null"
    /\ \A id \in RecordingIds : inFlight[id] = 0
    /\ serviceStatus = "unavailable"
    /\ settingsMode = "openai"

(* C27: on the record screen a started recording can be stopped: while *)
(* isRecording is true and no stopRecording, reset timer or start is still *)
(* to act on them, currentRecordingId is set and isUnloading is false, so *)
(* that stopRecording does not return early for ever. *)
C27_StopNeverBlocked ==
    (isRecording /\ resetTimers = 0 /\ ~stopAwait.active /\ ~startAwait.active)
        => ~StopReturnsEarly

----------------------------------------------------------------------------
(* Claims on the speaker heuristic (HeuristicSpec), continued *)

(* the end of the word before word i, 0 before the first *)
PreviousEnd(i) == IF i = 1 THEN 0 ELSE hWords[i - 1].end

(* the tag in force before word i, the initial speaker's before the first *)
PreviousTag(i) == IF i = 1 THEN InitialSpeakerId(hSpeakers) ELSE hProcessed[i - 1].speakerId

(* same length and order as the response's words; text, start and end kept *)
WordsPreserved ==
    /\ Len(hProcessed) = Len(hWords)
    /\ \A i \in DOMAIN hWords :
           /\ hProcessed[i].text = hWords[i].text
           /\ hProcessed[i].startTime = hWords[i].start
           /\ hProcessed[i].endTime = hWords[i].end

(* the tag changes only after a gap of more than 2 seconds *)
TagChangesOnlyAfterPause ==
    \A i \in DOMAIN hProcessed :
        hProcessed[i].speakerId # PreviousTag(i) => hWords[i].start - PreviousEnd(i) > 2

(* C28, as stated: the returned word list has the length and order of the *)
(* response's, keeps text, start and end of each word, tags every word with *)
(* the id of a member of the supplied speaker set, and changes the tag *)
(* between consecutive words only where the gap from the previous end (0 *)
(* before the first word) to the start is strictly greater than 2 seconds. *)
C28_WordsTaggedWithSuppliedSpeakers ==
    hWords # <<>>
        => /\ WordsPreserved
           /\ \A i \in DOMAIN hProcessed :
                  \E j \in DOMAIN hSpeakers : hProcessed[i].speakerId = hSpeakers[j]
           /\ TagChangesOnlyAfterPause

(* C28, amended: as stated, except that the tag of every word is the id of a *)
(* member of the supplied speaker set when that set is not empty, and is *)
(* undefined for every word when it is empty. *)
C28_WordsTaggedWithSuppliedSpeakersIfAny ==
    hWords # <<>>
        => /\ WordsPreserved
           /\ \A i \in DOMAIN hProcessed :
                  IF hSpeakers = <<>>
                  THEN hProcessed[i].speakerId = Undefined
                  ELSE \E j \in DOMAIN hSpeakers : hProcessed[i].speakerId = hSpeakers[j]
           /\ TagChangesOnlyAfterPause

(* two words more than 2 s apart, the first tagged with the initial speaker *)
(* and the second with the other one                                        *)
C28_Witness ==
    /\ Len(hWords) = 2
    /\ Len(hProcessed) = 2
    /\ hSpeakers = <<"1", "2">>
    /\ hWords[1].start <= 2
    /\ hWords[2].start - hWords[1].end > 2
    /\ hProcessed[1].speakerId = "1"
    /\ hProcessed[2].speakerId = "2"

----------------------------------------------------------------------------
(* Claims on the client (Spec), continued *)

(* a response with a success status whose JSON lacks a non-empty transcript: *)
(* transcription for the relay, text for the vendor                          *)
MissingTranscript(f, o) ==
    /\ ResponseOk(o)
    /\ IF f = "transcribeAudioRemote" THEN o.json.transcription = "" ELSE o.json.text = ""

Transcribing == fn \in {"transcribeAudioRemote", "transcribeAudio"}

(* C29, as stated: a relay or vendor response with a success status whose *)
(* JSON lacks a non-empty transcript makes the call fail after exactly one *)
(* transcription POST: the failure is terminal, is never retried, and is *)
(* never returned as an empty transcript. *)
C29_MissingTranscriptFailsAfterOnePost ==
    \A n \in DOMAIN outcomes :
        (Transcribing /\ MissingTranscript(fn, outcomes[n]))
            => /\ posts = 1
               /\ n = Len(outcomes)
               /\ pc = "done"
               /\ result.status = "thrown"

(* C29, amended: such a response makes the call fail with no transcription *)
(* POST after the one it answers (exactly one POST when it answers the first *)
(* attempt, n POSTs when n - 1 retried attempts came before): the failure is *)
(* terminal, is never retried, and the call throws, with the message that *)
(* no transcript was received, and never returns an empty transcript. *)
C29_MissingTranscriptEndsTheCall ==
    /\ \A n \in DOMAIN outcomes :
           (Transcribing /\ MissingTranscript(fn, outcomes[n]))
               => /\ n = Len(outcomes)
                  /\ posts = n
                  /\ pc = "done"
                  /\ result.status = "thrown"
                  /\ \/ Includes(result.value, MsgNoTranscription[1])
                     \/ result.value = MsgNoText
    /\ (Transcribing /\ pc = "done") => result # Returned("")

(* the vendor's second POST, after a retried network failure, is answered *)
(* with a success status and no text                                      *)
C29_Witness ==
    /\ fn = "transcribeAudio"
    /\ Len(outcomes) = 2
    /\ outcomes[1].type = "networkError"
    /\ MissingTranscript(fn, outcomes[2])
    /\ posts = 2
    /\ pc = "done"
    /\ result = Thrown(MsgNoText)

====
